---- MODULE Spec2Model ----
(***************************************************************************)
(* Model of the Obstruction game board (Board.py) and of the minimax /     *)
(* alpha-beta search that builds a game tree over it (Solver.py).          *)
(*                                                                         *)
(* Python values are modelled as follows.                                  *)
(*   - None is the empty sequence <<>>, a present value v is <<v>>.        *)
(*   - A 2D list of squares is a function  row -> (col -> square)  over    *)
(*     0-based indices.                                                    *)
(*   - An ObstructionBoard object is a record of its fields.  The two      *)
(*     fields w_utility and w_chosen are history fields: they count the    *)
(*     assignments made to _utility and chosen_child of that object.       *)
(*   - A tree node (the Python list [state, child, child, ...]) is a       *)
(*     record [state, children]; chosen_child, which in Python refers to   *)
(*     one of the child nodes, is the index of that child in children.     *)
(*   - math.inf is an integer larger than every finite utility.            *)
(***************************************************************************)
EXTENDS Integers, Sequences, FiniteSets, TLC

\* Bounds of the model
MaxWidth == 3
MaxHeight == 3
MaxDepth == 4

\* The board of the games played on one larger board
WideWidth == 5
WideHeight == 3

\* Square value constants
MAX == "O"
MIN == "X"
OPEN == "-"
BLOCKED == "/"

\* math.inf: larger than width * height + 1, the largest finite utility
inf == MaxWidth * MaxHeight + WideWidth * WideHeight + 2

----------------------------------------------------------------------------
(* Board.py *)

width(self) == Cardinality(DOMAIN self.tiles[0])

height(self) == Cardinality(DOMAIN self.tiles)

\* ObstructionBoard.__init__
ObstructionBoard(tiles, open_cnt, MAX_turn, action) ==
    [tiles |-> tiles, open_cnt |-> open_cnt, MAX_turn |-> MAX_turn,
     action |-> action, utility |-> <<>>, chosen_child |-> <<>>,
     w_utility |-> 0, w_chosen |-> 0]

\* ObstructionBoard.create
create(w, h) ==
    IF w < 1 \/ h < 1
    THEN <<>>
    ELSE <<ObstructionBoard([i \in 0..(h - 1) |-> [j \in 0..(w - 1) |-> OPEN]],
                            w * h, TRUE, <<>>)>>

\* A slip in the guard below: only blocked squares are refused
place_rejects_blocked(self, row, col) ==
    \/ ~(0 <= row /\ row < height(self))
    \/ ~(0 <= col /\ col < width(self))
    \/ self.tiles[row][col] = BLOCKED

\* The guard of place: the call returns None
place_rejects(self, row, col) ==
    \/ ~(0 <= row /\ row < height(self))
    \/ ~(0 <= col /\ col < width(self))
    \/ self.tiles[row][col] # OPEN

\* A slip in the copy below: new_squares = self._tiles, the rows are shared
copy_rows_shared(self) ==
    [self_tiles |-> self.tiles, new_squares |-> self.tiles, shared |-> TRUE,
     new_open_cnt |-> self.open_cnt]

\* new_squares = [list(old_row) for old_row in self._tiles]: the new rows are
\* fresh lists, so writing them does not write the rows of self.
copy_rows(self) ==
    [self_tiles |-> self.tiles, new_squares |-> self.tiles, shared |-> FALSE,
     new_open_cnt |-> self.open_cnt]

\* new_squares[i][j] = v, seen through the rows new_squares may share
write_square(env, i, j, v) ==
    [env EXCEPT !.new_squares[i][j] = v,
                !.self_tiles = IF env.shared
                               THEN [env.self_tiles EXCEPT ![i][j] = v]
                               ELSE env.self_tiles]

\* The marker of the player whose turn it is
marker(self) == IF self.MAX_turn THEN MAX ELSE MIN

\* Place the marker and count the square as no longer open
place_marker(self, env, row, col) ==
    [write_square(env, row, col, marker(self))
        EXCEPT !.new_open_cnt = env.new_open_cnt - 1]

\* A slip in the loop body below: the blocked square is not counted
block_square_uncounted(self, env, i, j) ==
    IF /\ 0 <= i /\ i < height(self)
       /\ 0 <= j /\ j < width(self)
       /\ env.new_squares[i][j] = OPEN
    THEN write_square(env, i, j, BLOCKED)
    ELSE env

\* Body of the two nested loops for one (i, j)
block_square(self, env, i, j) ==
    IF /\ 0 <= i /\ i < height(self)
       /\ 0 <= j /\ j < width(self)
       /\ env.new_squares[i][j] = OPEN
    THEN [write_square(env, i, j, BLOCKED)
             EXCEPT !.new_open_cnt = env.new_open_cnt - 1]
    ELSE env

\* for i in range(row - 1, row + 2): for j in range(col - 1, col + 2);
\* k counts the iterations done so far
RECURSIVE block_surrounding(_, _, _, _, _)
block_surrounding(self, env, row, col, k) ==
    IF k = 9
    THEN env
    ELSE block_surrounding(self,
            block_square(self, env, row - 1 + (k \div 3), col - 1 + (k % 3)),
            row, col, k + 1)

\* A slip in the turn switch below: the turn is passed on without "not"
next_turn_kept(self) == self.MAX_turn

\* not self._MAX_turn: the player to move in the successor
next_turn(self) == ~self.MAX_turn

\* ObstructionBoard.place: ret is the returned value, self the object the
\* method was called on as it is when the call returns
place_call(self, row, col) ==
    IF place_rejects(self, row, col)
    THEN [self |-> self, ret |-> <<>>]
    ELSE LET env == block_surrounding(self,
                        place_marker(self, copy_rows(self), row, col),
                        row, col, 0)
         IN [self |-> [self EXCEPT !.tiles = env.self_tiles],
             ret |-> <<ObstructionBoard(env.new_squares, env.new_open_cnt,
                                        next_turn(self), <<row, col>>)>>]

place(self, row, col) == place_call(self, row, col).ret

\* ObstructionBoard.done
done(self) == self.open_cnt = 0

\* A slip in winner: the player to move is named, not the other one
winner_to_move(self) ==
    IF self.open_cnt # 0 THEN <<>>
    ELSE IF self.MAX_turn THEN <<MAX>> ELSE <<MIN>>

\* ObstructionBoard.winner
winner(self) ==
    IF ~done(self) THEN <<>>
    ELSE IF self.MAX_turn THEN <<MIN>> ELSE <<MAX>>

\* A slip in _evaluate_node: the case of exactly 1 open square is forgotten
evaluate_node_plain(board) ==
    IF board.MAX_turn THEN board.open_cnt ELSE -board.open_cnt

\* _evaluate_node
evaluate_node(board) ==
    LET util == IF board.open_cnt = 1
                THEN width(board) * height(board) + 1
                ELSE board.open_cnt
    IN IF board.MAX_turn THEN util ELSE -util

\* ObstructionBoard.utility (getter): self is the object after the read,
\* value the number returned
utility_get(self) ==
    IF self.utility = <<>>
    THEN LET w == winner(self)
             v == IF w = <<>> THEN evaluate_node(self)
                  ELSE IF w = <<MAX>> THEN inf ELSE -inf
         IN [self |-> [self EXCEPT !.utility = <<v>>,
                                   !.w_utility = self.w_utility + 1],
             value |-> v]
    ELSE [self |-> self, value |-> self.utility[1]]

\* ObstructionBoard.utility (setter)
utility_set(self, value) ==
    [self EXCEPT !.utility = <<value>>, !.w_utility = self.w_utility + 1]

\* Assignment to the unmanaged attribute chosen_child
chosen_child_set(self, value) ==
    [self EXCEPT !.chosen_child = value, !.w_chosen = self.w_chosen + 1]

----------------------------------------------------------------------------
(* Solver.py *)

\* class MMData
MMData(depth) == [kind |-> "MM", depth |-> depth]

\* class ABData
ABData(depth, alpha, beta) ==
    [kind |-> "AB", depth |-> depth, alpha |-> alpha, beta |-> beta]

\* A slip in ABData.child: the remaining depth is passed on as it is
child_keeps_depth(node_data) ==
    IF node_data.kind = "MM"
    THEN MMData(node_data.depth - 1)
    ELSE ABData(node_data.depth, node_data.alpha, node_data.beta)

\* MMData.child / ABData.child
child(node_data) ==
    IF node_data.kind = "MM"
    THEN MMData(node_data.depth - 1)
    ELSE ABData(node_data.depth - 1, node_data.alpha, node_data.beta)

\* MMData.update_alpha / ABData.update_alpha
update_alpha(node_data, new_utility) ==
    IF node_data.kind = "AB" /\ new_utility > node_data.alpha
    THEN [node_data EXCEPT !.alpha = new_utility]
    ELSE node_data

\* MMData.update_beta / ABData.update_beta
update_beta(node_data, new_utility) ==
    IF node_data.kind = "AB" /\ new_utility < node_data.beta
    THEN [node_data EXCEPT !.beta = new_utility]
    ELSE node_data

\* A slip in ABData.prune: alpha and beta must cross strictly
prune_strict(node_data) ==
    node_data.kind = "AB" /\ node_data.alpha > node_data.beta

\* MMData.prune / ABData.prune
prune(node_data) ==
    node_data.kind = "AB" /\ node_data.alpha >= node_data.beta

\* The initial utility of an expanded state: -inf for MAX, inf for MIN
initial_utility(state) == IF state.MAX_turn THEN -inf ELSE inf

\* A slip in the choice of max_or_min: max is taken for MIN as well
max_or_min_always_max(state, a, b) == IF a >= b THEN a ELSE b

\* max_or_min(state.utility, new_state.utility): max for MAX, min for MIN
max_or_min(state, a, b) ==
    IF state.MAX_turn
    THEN (IF a >= b THEN a ELSE b)
    ELSE (IF a <= b THEN a ELSE b)

\* A slip in the choice of update_ab: alpha and beta are swapped
update_ab_swapped(state, node_data, value) ==
    IF state.MAX_turn
    THEN update_beta(node_data, value)
    ELSE update_alpha(node_data, value)

\* update_ab: update_alpha for MAX, update_beta for MIN
update_ab(state, node_data, value) ==
    IF state.MAX_turn
    THEN update_alpha(node_data, value)
    ELSE update_beta(node_data, value)

\* A slip in the test below: every child searched becomes the choice
new_choice_always(state, temp) == TRUE

\* The test that makes the child just searched the new choice
new_choice(state, temp) ==
    temp # utility_get(state).value \/ state.chosen_child = <<>>

\* A slip in the test below: a proven loss (-inf) is forgotten
proven_win_only(state) == utility_get(state).value = inf

\* The test that keeps chosen_child when the rest of the moves are pruned
proven(state) == utility_get(state).value \in {inf, -inf}

\* Lines 103-123: record the choice and the new max/min, update alpha or
\* beta, and on a prune reset the choice unless the utility is +-inf.
\* fr is the frame of the running call: its state, the children appended to
\* node so far, total_expanded, node_data and whether the loops were left.
take_choice(fr, temp) ==
    LET chosen == chosen_child_set(fr.state, <<Len(fr.children)>>)
        state == utility_set(chosen, temp)
        node_data == update_ab(state, fr.node_data, temp)
    IN IF prune(node_data)
       THEN [fr EXCEPT !.state = IF proven(state)
                                 THEN state
                                 ELSE chosen_child_set(state, <<>>),
                       !.node_data = node_data,
                       !.pruned = TRUE]
       ELSE [fr EXCEPT !.state = state, !.node_data = node_data]

RECURSIVE base_minimax(_, _)

\* Body of the two nested loops of _base_minimax for one (i, j)
visit_move(fr, i, j) ==
    LET placed == place_call(fr.state, i, j)
    IN IF placed.ret = <<>>
       THEN [fr EXCEPT !.state = placed.self]
       ELSE LET sub == base_minimax(placed.ret[1], child(fr.node_data))
                read == utility_get(sub.node.state)
                fr1 == [fr EXCEPT
                          !.state = placed.self,
                          !.children = Append(@, [sub.node EXCEPT
                                                    !.state = read.self]),
                          !.total_expanded = @ + sub.expanded]
                temp == max_or_min(fr1.state, utility_get(fr1.state).value,
                                   read.value)
            IN IF new_choice(fr1.state, temp)
               THEN take_choice(fr1, temp)
               ELSE fr1

\* for i in range(state.height): for j in range(state.width), left as soon
\* as the rest is pruned; k counts the (i, j) visited so far
RECURSIVE expand_moves(_, _)
expand_moves(fr, k) ==
    IF fr.pruned \/ k = height(fr.state) * width(fr.state)
    THEN fr
    ELSE expand_moves(visit_move(fr, k \div width(fr.state),
                                 k % width(fr.state)), k + 1)

\* The test that decides whether the children of state are evaluated
expands(state, node_data) == node_data.depth # 0 /\ ~done(state)

\* _base_minimax: the returned (node, total_expanded)
base_minimax(state, node_data) ==
    IF expands(state, node_data)
    THEN LET fr == expand_moves(
                     [state |-> utility_set(state, initial_utility(state)),
                      children |-> <<>>, total_expanded |-> 1,
                      node_data |-> node_data, pruned |-> FALSE], 0)
         IN [node |-> [state |-> fr.state, children |-> fr.children],
             expanded |-> fr.total_expanded]
    ELSE [node |-> [state |-> state, children |-> <<>>], expanded |-> 1]

minimax(state, depth) == base_minimax(state, MMData(depth))

minimax_ab(state, depth) == base_minimax(state, ABData(depth, -inf, inf))

----------------------------------------------------------------------------
(* The system: a game played from create(w, h) by place calls, and searches *)
(* run on the current state of the game.                                    *)

VARIABLES
    board,      \* the current state of the game, as create / place made it
    lookahead,  \* the depth every search of this run is given
    lastPlace,  \* the last call of place: receiver before and after, the
                \* arguments and the returned value; <<>> before any call
    mmRes,      \* the last minimax call on board: the state passed, the
                \* depth, the returned node and count; <<>> if none
    abRes       \* the same for minimax_ab

vars == <<board, lookahead, lastPlace, mmRes, abRes>>

\* A copy of the state with no utility and no choice recorded yet
fresh(self) ==
    ObstructionBoard(self.tiles, self.open_cnt, self.MAX_turn, self.action)

Init ==
    /\ \E w \in 1..MaxWidth, h \in 1..MaxHeight : board = create(w, h)[1]
    /\ lookahead \in 0..MaxDepth
    /\ lastPlace = <<>>
    /\ mmRes = <<>>
    /\ abRes = <<>>

\* board.place(row, col); the game moves to the returned state if there is
\* one, and the trees searched for the old state are dropped
Place(row, col) ==
    LET call == place_call(board, row, col)
    IN /\ lastPlace' = <<[before |-> board, row |-> row, col |-> col,
                          self |-> call.self, ret |-> call.ret]>>
       /\ IF call.ret = <<>>
          THEN /\ board' = call.self
               /\ UNCHANGED <<mmRes, abRes>>
          ELSE /\ board' = call.ret[1]
               /\ mmRes' = <<>>
               /\ abRes' = <<>>
       /\ UNCHANGED lookahead

\* minimax(copy of board, lookahead)
Minimax ==
    LET res == minimax(fresh(board), lookahead)
    IN /\ mmRes' = <<[state |-> fresh(board), depth |-> lookahead,
                      node |-> res.node, expanded |-> res.expanded]>>
       /\ UNCHANGED <<board, lookahead, lastPlace, abRes>>

\* minimax_ab(copy of board, lookahead)
MinimaxAB ==
    LET res == minimax_ab(fresh(board), lookahead)
    IN /\ abRes' = <<[state |-> fresh(board), depth |-> lookahead,
                      node |-> res.node, expanded |-> res.expanded]>>
       /\ UNCHANGED <<board, lookahead, lastPlace, mmRes>>

\* A turn of the game: a place call that returns a state
Move(row, col) ==
    /\ place(board, row, col) # <<>>
    /\ Place(row, col)

\* The game with the searches run on its states
Next ==
    \/ \E row \in 0..(MaxHeight - 1), col \in 0..(MaxWidth - 1) : Move(row, col)
    \/ Minimax
    \/ MinimaxAB

Spec == Init /\ [][Next]_vars

\* The game on the larger board, searched to the full depth
InitWide ==
    /\ board = create(WideWidth, WideHeight)[1]
    /\ lookahead = MaxDepth
    /\ lastPlace = <<>>
    /\ mmRes = <<>>
    /\ abRes = <<>>

NextWide ==
    \/ \E row \in 0..(WideHeight - 1), col \in 0..(WideWidth - 1) :
           Move(row, col)
    \/ Minimax
    \/ MinimaxAB

SpecWide == InitWide /\ [][NextWide]_vars

\* The board alone, with place called on every square and around the board
NextBoard ==
    \E row \in -1..MaxHeight, col \in -1..MaxWidth : Place(row, col)

\* No search is run here, so one value of the depth is enough
InitBoard == Init /\ lookahead = MaxDepth

SpecBoard == InitBoard /\ [][NextBoard]_vars

----------------------------------------------------------------------------
(* Vocabulary of the properties *)

\* The squares of a board
Squares(b) == (0..(height(b) - 1)) \X (0..(width(b) - 1))

\* The number of squares of b holding v
Count(b, v) == Cardinality({sq \in Squares(b) : b.tiles[sq[1]][sq[2]] = v})

\* The number of moves played to reach b
Marks(b) == Count(b, MAX) + Count(b, MIN)

\* The squares of the 3x3 neighbourhood of (row, col), clipped to the board
Around(b, row, col) ==
    {sq \in Squares(b) : /\ sq[1] - row \in {-1, 0, 1}
                         /\ sq[2] - col \in {-1, 0, 1}}

\* The squares a player may still take
LegalMoves(b) == {sq \in Squares(b) : b.tiles[sq[1]][sq[2]] = OPEN}

\* The fields of a state that make the position, as opposed to its annotations
Position(b) == <<b.tiles, b.open_cnt, b.MAX_turn, b.action>>

\* All the nodes of a tree
RECURSIVE Nodes(_)
Nodes(node) ==
    {node} \cup UNION {Nodes(node.children[i]) : i \in 1..Len(node.children)}

\* The searches whose result is at hand
Searches == {mmRes[i] : i \in 1..Len(mmRes)} \cup {abRes[i] : i \in 1..Len(abRes)}

\* The nodes of all the trees at hand
TreeNodes == UNION {Nodes(res.node) : res \in Searches}

\* The nodes whose children the search evaluated
Expanded == {n \in TreeNodes : n.children # <<>>}

\* Both algorithms have been run on the current state with the same depth
Paired ==
    /\ mmRes # <<>>
    /\ abRes # <<>>
    /\ mmRes[1].state = abRes[1].state
    /\ mmRes[1].depth = abRes[1].depth

----------------------------------------------------------------------------
(* Properties *)

\* C1: minimax_ab and minimax, each run on a fresh copy of the same reachable
\* state with the same depth, leave the same utility at the root.
C1_SameRootUtility ==
    Paired => utility_get(abRes[1].node.state).value
                = utility_get(mmRes[1].node.state).value

\* C1 happens: alpha-beta cut part of the tree and the root value is a
\* heuristic one, backed up from the depth limit
C1_Witness ==
    /\ Paired
    /\ abRes[1].depth >= 2
    /\ abRes[1].expanded < mmRes[1].expanded
    /\ utility_get(abRes[1].node.state).value \notin {inf, -inf}

\* C2: after minimax or minimax_ab on a state with a legal move and
\* depth >= 1 the root's chosen_child is set; the moves of the root are cut
\* short only when the root utility is +inf or -inf.
C2_RootChoiceSet ==
    \A res \in Searches :
        (LegalMoves(res.state) # {} /\ res.depth >= 1) =>
            /\ res.node.state.chosen_child # <<>>
            /\ Len(res.node.children) < Cardinality(LegalMoves(res.state))
                  => utility_get(res.node.state).value \in {inf, -inf}

\* C2 happens: alpha-beta left the loops at the root before the last move,
\* for a MIN root as well as for a MAX root
C2_Witness ==
    /\ abRes # <<>>
    /\ abRes[1].depth >= 1
    /\ ~abRes[1].state.MAX_turn
    /\ Len(abRes[1].node.children) < Cardinality(LegalMoves(abRes[1].state))

\* C3: the expanded count of minimax_ab is at most that of minimax for the
\* same state and depth.
C3_ExpandedAtMost ==
    Paired => abRes[1].expanded <= mmRes[1].expanded

\* C3 happens: the two counts are compared where the search goes below the
\* root's children, and where alpha-beta expanded strictly fewer nodes
C3_Witness ==
    /\ Paired
    /\ mmRes[1].depth >= 2
    /\ abRes[1].expanded > 1 + Len(abRes[1].node.children)
    /\ abRes[1].expanded < mmRes[1].expanded

\* The last place call returned a state
Placed == lastPlace # <<>> /\ lastPlace[1].ret # <<>>

\* C4: in every state reachable from create by successful place calls every
\* square holds one of the four values, so that the four counts add up to
\* width * height, and the stored open count is the number of open squares.
C4_CountsConsistent ==
    /\ \A sq \in Squares(board) :
           board.tiles[sq[1]][sq[2]] \in {OPEN, BLOCKED, MAX, MIN}
    /\ Count(board, OPEN) + Count(board, BLOCKED) + Count(board, MAX)
          + Count(board, MIN) = width(board) * height(board)
    /\ board.open_cnt = Count(board, OPEN)

\* C4 happens: a state reached by two turns in which squares of three kinds
\* are present and some are still open
C4_Witness ==
    /\ Placed
    /\ Marks(board) >= 2
    /\ Count(board, BLOCKED) >= 1
    /\ Count(board, OPEN) >= 1

\* C5: place(r, c) on an open square returns a successor with the mover's
\* mark on (r, c), the squares that were open around (r, c) blocked, every
\* other square as it was, the open count reduced by one and by the number of
\* newly blocked squares, the mover flipped and (r, c) as its action; place
\* (r, c) on the successor fails.
C5_PlaceEffect ==
    lastPlace # <<>> =>
        LET b == lastPlace[1].before
            r == lastPlace[1].row
            c == lastPlace[1].col
        IN (<<r, c>> \in Squares(b) /\ b.tiles[r][c] = OPEN) =>
              /\ lastPlace[1].ret # <<>>
              /\ LET n == lastPlace[1].ret[1]
                     newly == {sq \in Around(b, r, c) \ {<<r, c>>} :
                                  b.tiles[sq[1]][sq[2]] = OPEN}
                 IN /\ DOMAIN n.tiles = DOMAIN b.tiles
                    /\ \A i \in DOMAIN b.tiles :
                           DOMAIN n.tiles[i] = DOMAIN b.tiles[i]
                    /\ n.tiles[r][c] = (IF b.MAX_turn THEN MAX ELSE MIN)
                    /\ \A sq \in newly : n.tiles[sq[1]][sq[2]] = BLOCKED
                    /\ \A sq \in Squares(b) \ (newly \cup {<<r, c>>}) :
                           n.tiles[sq[1]][sq[2]] = b.tiles[sq[1]][sq[2]]
                    /\ n.open_cnt = b.open_cnt - 1 - Cardinality(newly)
                    /\ n.MAX_turn = ~b.MAX_turn
                    /\ n.action = <<r, c>>
                    /\ place(n, r, c) = <<>>

\* C5 happens: a mark was placed next to squares that were blocked before
\* and next to squares that were open
C5_Witness ==
    /\ Placed
    /\ LET b == lastPlace[1].before
           around == Around(b, lastPlace[1].row, lastPlace[1].col)
       IN /\ \E sq \in around : b.tiles[sq[1]][sq[2]] = BLOCKED
          /\ \E sq \in around \ {<<lastPlace[1].row, lastPlace[1].col>>} :
                 b.tiles[sq[1]][sq[2]] = OPEN

\* C6: place(row, col) returns None exactly when row is outside [0, height),
\* col is outside [0, width) or the square is not open; failing or not, the
\* state it was called on keeps its grid, open count, mover and action.
C6_PlaceFailure ==
    lastPlace # <<>> =>
        LET b == lastPlace[1].before
            r == lastPlace[1].row
            c == lastPlace[1].col
        IN /\ lastPlace[1].ret = <<>>
                <=> \/ r < 0 \/ r >= height(b)
                    \/ c < 0 \/ c >= width(b)
                    \/ b.tiles[r][c] \in {BLOCKED, MAX, MIN}
           /\ Position(lastPlace[1].self) = Position(b)

\* C6 happens: place was refused on a marked square of the board after an
\* earlier call was accepted
C6_Witness ==
    /\ lastPlace # <<>>
    /\ lastPlace[1].ret = <<>>
    /\ <<lastPlace[1].row, lastPlace[1].col>> \in Squares(board)
    /\ board.tiles[lastPlace[1].row][lastPlace[1].col] \in {MAX, MIN}

\* C7: done is true iff the open count is 0; winner is None when not done,
\* and when done it is the player whose mark is on the square of the state's
\* action, the first player when the board was finished in one move.
C7_DoneWinner ==
    /\ done(board) <=> board.open_cnt = 0
    /\ ~done(board) => winner(board) = <<>>
    /\ done(board) =>
          /\ board.action # <<>>
          /\ winner(board) = <<board.tiles[board.action[1]][board.action[2]]>>
          /\ Marks(board) = 1 => winner(board) = <<MAX>>

\* C7 happens: a game finished by the second player
C7_Witness ==
    /\ Placed
    /\ done(board)
    /\ Marks(board) = 2

\* The utility the rule of C8 gives a state
C8_Rule(b) ==
    IF b.open_cnt = 0
    THEN (IF b.tiles[b.action[1]][b.action[2]] = MAX THEN inf ELSE -inf)
    ELSE LET magnitude == IF b.open_cnt = 1
                          THEN width(b) * height(b) + 1
                          ELSE b.open_cnt
         IN IF Marks(b) % 2 = 0 THEN magnitude ELSE -magnitude

\* C8: reading the utility of a state that has none assigned gives +inf if
\* the first player won, -inf if the second player won, and otherwise the
\* open count, or width * height + 1 when the open count is 1, positive iff
\* the first player is to move.  The states read are the leaves of the
\* trees (the search reads each child's utility) and the current state.
C8_LeafUtility ==
    /\ utility_get(board).value = C8_Rule(board)
    /\ \A n \in TreeNodes :
           n.children = <<>> => utility_get(n.state).value = C8_Rule(n.state)

\* C8 happens: the search read the utility of a leaf with exactly one open
\* square where the second player is to move
C8_Witness ==
    \E n \in TreeNodes :
        /\ n.children = <<>>
        /\ n.state.open_cnt = 1
        /\ ~n.state.MAX_turn
        /\ n.state.utility = <<-(width(n.state) * height(n.state) + 1)>>

\* C9: in every state reachable from create by place moves the first player
\* is to move iff the number of marked squares is even; two states of the
\* same game with identical grids have the same player to move.
C9_TurnParity ==
    /\ board.MAX_turn <=> Marks(board) % 2 = 0
    /\ \A n \in TreeNodes : n.state.MAX_turn <=> Marks(n.state) % 2 = 0
    /\ \A n1, n2 \in TreeNodes :
           n1.state.tiles = n2.state.tiles
              => n1.state.MAX_turn = n2.state.MAX_turn

\* C9 happens: one tree holds the same grid reached by different last moves
C9_Witness ==
    /\ mmRes # <<>>
    /\ \E n1, n2 \in Nodes(mmRes[1].node) :
           /\ n1.state.tiles = n2.state.tiles
           /\ n1.state.action # n2.state.action

\* The utility a child of an expanded node was found to have
ChildUtility(n, i) == n.children[i].state.utility[1]

\* The children of n that became the running choice when they were
\* searched: the first one, and each later one whose utility is strictly
\* better for the mover of n than that of every child before it
Taken(n) ==
    {i \in 1..Len(n.children) :
        \A j \in 1..(i - 1) :
            IF n.state.MAX_turn
            THEN ChildUtility(n, i) > ChildUtility(n, j)
            ELSE ChildUtility(n, i) < ChildUtility(n, j)}

\* No field of a state other than utility and chosen_child was written by
\* the searches: the root is the position passed in, each child is the
\* position place returns for its parent, and a state that was not expanded
\* has no choice recorded
C10_Frame ==
    /\ \A res \in Searches : Position(res.node.state) = Position(res.state)
    /\ \A n \in TreeNodes :
           /\ \A i \in 1..Len(n.children) :
                  LET c == n.children[i].state
                  IN /\ c.action # <<>>
                     /\ place(fresh(n.state), c.action[1], c.action[2]) # <<>>
                     /\ Position(c) =
                          Position(place(fresh(n.state),
                                         c.action[1], c.action[2])[1])
           /\ n.children = <<>> =>
                  /\ n.state.chosen_child = <<>>
                  /\ n.state.w_chosen = 0
                  /\ n.state.w_utility <= 1

\* C10: during a search call the utility field and the chosen_child field of
\* each state the call expands are each written exactly once, and no other
\* field of any state is written.
C10_WrittenOnce ==
    /\ \A n \in Expanded : n.state.w_utility = 1 /\ n.state.w_chosen = 1
    /\ C10_Frame

\* C10 as amended: the utility of an expanded state is written once when its
\* expansion starts and once for each child that becomes the running choice,
\* so at least twice; chosen_child is written once for each such child and
\* once more when a prune resets it to None; no other field is written.
C10_WrittenPerChoice ==
    /\ \A n \in Expanded :
           /\ Taken(n) # {}
           /\ n.state.w_utility = 1 + Cardinality(Taken(n))
           /\ n.state.w_chosen = Cardinality(Taken(n))
                  + (IF n.state.chosen_child = <<>> THEN 1 ELSE 0)
    /\ C10_Frame

\* C10 happens: an expanded state took two of its children in turn as its
\* choice, and one that alpha-beta pruned had its choice reset
C10_Witness ==
    /\ \E n \in Expanded :
           /\ Cardinality(Taken(n)) >= 2
           /\ Len(n.children) > Cardinality(Taken(n))
    /\ \E n \in Expanded :
           /\ Cardinality(Taken(n)) >= 2
           /\ n.state.chosen_child = <<>>

\* The place of a square in the row-major order of the legal moves of b
Rank(b, sq) ==
    Cardinality({m \in LegalMoves(b) :
                    m[1] * width(b) + m[2] <= sq[1] * width(b) + sq[2]})

\* The children of n are the successors for the first legal moves of its
\* state in row-major order, one child per move
InMoveOrder(n) ==
    \A i \in 1..Len(n.children) :
        /\ n.children[i].state.action \in LegalMoves(n.state)
        /\ Rank(n.state, n.children[i].state.action) = i

\* The best of the utilities of the first k children of n for its mover
BestOf(n, k) ==
    CHOOSE u \in {ChildUtility(n, i) : i \in 1..k} :
        \A i \in 1..k : IF n.state.MAX_turn
                        THEN u >= ChildUtility(n, i)
                        ELSE u <= ChildUtility(n, i)

\* The tree minimax leaves below n when d is the depth remaining at n
RECURSIVE C11_Shape(_, _)
C11_Shape(n, d) ==
    IF d # 0 /\ n.state.open_cnt # 0
    THEN /\ Len(n.children) = Cardinality(LegalMoves(n.state))
         /\ InMoveOrder(n)
         /\ n.children # <<>>
         /\ n.state.utility = <<BestOf(n, Len(n.children))>>
         /\ n.state.chosen_child # <<>>
         /\ LET k == n.state.chosen_child[1]
            IN /\ k \in 1..Len(n.children)
               /\ ChildUtility(n, k) = n.state.utility[1]
               /\ \A j \in 1..(k - 1) :
                      ChildUtility(n, j) # n.state.utility[1]
         /\ \A i \in 1..Len(n.children) : C11_Shape(n.children[i], d - 1)
    ELSE /\ n.children = <<>>
         /\ n.state.chosen_child = <<>>

\* C11: after minimax(state, depth) on a fresh state every node with depth
\* remaining and an open square has one child per legal move in row-major
\* order, the max (first player to move) or min (second player) of its
\* children's utilities as its utility, and as chosen_child the first child
\* with that utility; the other nodes have no children and no chosen_child.
C11_MinimaxTree ==
    mmRes # <<>> => C11_Shape(mmRes[1].node, mmRes[1].depth)

\* C11 happens: below an expanded root a MIN node was expanded, and the
\* root chose the first of several children of equal utility
C11_Witness ==
    /\ mmRes # <<>>
    /\ mmRes[1].depth >= 2
    /\ LET n == mmRes[1].node
       IN /\ n.state.chosen_child # <<>>
          /\ \E i \in 1..Len(n.children) :
                 /\ i > n.state.chosen_child[1]
                 /\ ChildUtility(n, i) = n.state.utility[1]
          /\ \E i \in 1..Len(n.children) :
                 Len(n.children[i].children) >= 2

\* The larger of two numbers, and the smaller
Larger(a, b) == IF a >= b THEN a ELSE b
Smaller(a, b) == IF a <= b THEN a ELSE b

\* alpha and beta at n once its first k children are searched, when n was
\* entered with alpha and beta: the mover's bound follows the best utility
AlphaAfter(n, k, alpha) ==
    IF n.state.MAX_turn /\ k >= 1 THEN Larger(alpha, BestOf(n, k)) ELSE alpha

BetaAfter(n, k, beta) ==
    IF ~n.state.MAX_turn /\ k >= 1 THEN Smaller(beta, BestOf(n, k)) ELSE beta

\* alpha >= beta at n once its first k children are searched
Crossed(n, k, alpha, beta) == AlphaAfter(n, k, alpha) >= BetaAfter(n, k, beta)

\* The tree minimax_ab leaves below n when n was entered with alpha and beta
RECURSIVE C12_Shape(_, _, _)
C12_Shape(n, alpha, beta) ==
    LET last == Len(n.children)
    IN \/ last = 0
       \/ /\ InMoveOrder(n)
          /\ \A k \in 1..(last - 1) : ~Crossed(n, k, alpha, beta)
          /\ last < Cardinality(LegalMoves(n.state))
                => Crossed(n, last, alpha, beta)
          /\ Crossed(n, last, alpha, beta) =>
                IF n.state.utility[1] \in {inf, -inf}
                THEN /\ n.state.chosen_child # <<>>
                     /\ n.state.chosen_child[1] \in 1..last
                     /\ ChildUtility(n, n.state.chosen_child[1])
                           = n.state.utility[1]
                ELSE n.state.chosen_child = <<>>
          /\ \A i \in 1..last :
                 C12_Shape(n.children[i], AlphaAfter(n, i - 1, alpha),
                           BetaAfter(n, i - 1, beta))

\* C12: in the tree returned by minimax_ab the children of each expanded node
\* are the successors for a prefix of its legal moves in row-major order; no
\* sibling is generated once alpha >= beta at the node, and then the node's
\* chosen_child is unset if its utility is finite and is the child that
\* produced the value if its utility is +inf or -inf.
C12_PrunedTree ==
    abRes # <<>> => C12_Shape(abRes[1].node, -inf, inf)

\* C12 happens: below the root one node was cut short with a finite utility
\* and one with an infinite utility
C12_Witness ==
    /\ abRes # <<>>
    /\ \E n \in Nodes(abRes[1].node) \ {abRes[1].node} :
           /\ n.children # <<>>
           /\ Len(n.children) < Cardinality(LegalMoves(n.state))
           /\ n.state.utility[1] \notin {inf, -inf}
           /\ n.state.chosen_child = <<>>
    /\ \E n \in Nodes(abRes[1].node) \ {abRes[1].node} :
           /\ n.children # <<>>
           /\ Len(n.children) < Cardinality(LegalMoves(n.state))
           /\ n.state.utility[1] \in {inf, -inf}
           /\ n.state.chosen_child # <<>>

\* The move minimax chooses at the root for the state of n with depth d
MinimaxChoice(n, d) ==
    LET mm == minimax(fresh(n.state), d).node
    IN IF mm.state.chosen_child = <<>>
       THEN <<>>
       ELSE <<mm.children[mm.state.chosen_child[1]].state.action>>

\* Every chosen_child set in the tree below n, d being the depth remaining
\* at n, is the move minimax chooses for that state and depth
RECURSIVE C13_Shape(_, _)
C13_Shape(n, d) ==
    /\ n.state.chosen_child # <<>> =>
           <<n.children[n.state.chosen_child[1]].state.action>>
               = MinimaxChoice(n, d)
    /\ \A i \in 1..Len(n.children) : C13_Shape(n.children[i], d - 1)

\* C13: in the tree returned by minimax_ab(state, depth) every node, root or
\* interior, whose chosen_child is set has chosen the move that minimax
\* chooses at the root when run on that node's state with that node's
\* remaining depth.
C13_ChoiceAsMinimax ==
    abRes # <<>> => C13_Shape(abRes[1].node, abRes[1].depth)

====
